---- MODULE Spec2Model ----
(***************************************************************************)
(* A model of quran_interpretations_app.py: the memoized loader            *)
(* load_all_data() and the script main() that Streamlit re-executes on     *)
(* every user interaction.                                                 *)
(*                                                                         *)
(* Text is modelled as a tuple of one-character strings, so that           *)
(* str.strip(), pd.to_numeric() and Python's string ordering are computed  *)
(* character by character.  A missing value (pandas NaN, Python None) is   *)
(* the empty tuple <<>>; a present number or selection n is <<n>>.         *)
(***************************************************************************)
EXTENDS Integers, Sequences, FiniteSets, TLC

(***************************************************************************)
(* Bounds of the modelled environment.                                     *)
(***************************************************************************)
\* At most MaxUp requests get an HTTP response from the remote host during
\* one load; every other request ends in a network error.
MaxUp == 2
\* At most MaxLoads executions of the loader body (cache misses) per process.
MaxLoads == 2

(***************************************************************************)
(* Program constants.                                                      *)
(***************************************************************************)
CSV_FILES ==
    << "Claude_haiku.csv", "Claude_opus.csv", "Claude_sonnet.csv",
       "Claude_sonnet_3.5.csv", "GPT3.csv", "GPT4Turbo.csv", "GPT4o.csv",
       "GPT4oMini.csv", "Grok2.csv", "Llama2.csv", "Llama3.csv",
       "Mixtral.csv", "gemini_1.5_flash.csv", "gemini_1.5_pro.csv",
       "gemini_2.0_flash.csv" >>

\* MODEL_DISPLAY_NAMES, keyed by file name: the key of the source is the file
\* name with its ".csv" suffix removed (filename.removesuffix(".csv")).
MODEL_DISPLAY_NAMES ==
    [ f \in { CSV_FILES[k] : k \in 1..Len(CSV_FILES) } |->
        CASE f = "Claude_haiku.csv"       -> "Claude Haiku"
          [] f = "Claude_opus.csv"        -> "Claude Opus"
          [] f = "Claude_sonnet.csv"      -> "Claude Sonnet"
          [] f = "Claude_sonnet_3.5.csv"  -> "Claude Sonnet 3.5"
          [] f = "GPT3.csv"               -> "GPT-3"
          [] f = "GPT4Turbo.csv"          -> "GPT-4 Turbo"
          [] f = "GPT4o.csv"              -> "GPT-4o"
          [] f = "GPT4oMini.csv"          -> "GPT-4o Mini"
          [] f = "Grok2.csv"              -> "Grok 2"
          [] f = "Llama2.csv"             -> "Llama 2"
          [] f = "Llama3.csv"             -> "Llama 3"
          [] f = "Mixtral.csv"            -> "Mixtral"
          [] f = "gemini_1.5_flash.csv"   -> "Gemini 1.5 Flash"
          [] f = "gemini_1.5_pro.csv"     -> "Gemini 1.5 Pro"
          [] f = "gemini_2.0_flash.csv"   -> "Gemini 2.0 Flash" ]

DisplayNames == { MODEL_DISPLAY_NAMES[CSV_FILES[k]] : k \in 1..Len(CSV_FILES) }

(***************************************************************************)
(* Python strings: code points and ordering.                               *)
(***************************************************************************)
\* ord(c) for the characters that occur in the display names.
Ord ==
    [ c \in { " ", "-", ".", "0", "1", "2", "3", "4", "5",
              "C", "F", "G", "H", "L", "M", "O", "P", "S", "T",
              "a", "b", "d", "e", "h", "i", "k", "l", "m", "n", "o",
              "p", "r", "s", "t", "u", "x" } |->
        CASE c = " " -> 32 [] c = "-" -> 45 [] c = "." -> 46
          [] c = "0" -> 48 [] c = "1" -> 49 [] c = "2" -> 50
          [] c = "3" -> 51 [] c = "4" -> 52 [] c = "5" -> 53
          [] c = "C" -> 67 [] c = "F" -> 70 [] c = "G" -> 71
          [] c = "H" -> 72 [] c = "L" -> 76 [] c = "M" -> 77
          [] c = "O" -> 79 [] c = "P" -> 80 [] c = "S" -> 83
          [] c = "T" -> 84
          [] c = "a" -> 97  [] c = "b" -> 98  [] c = "d" -> 100
          [] c = "e" -> 101 [] c = "h" -> 104 [] c = "i" -> 105
          [] c = "k" -> 107 [] c = "l" -> 108 [] c = "m" -> 109
          [] c = "n" -> 110 [] c = "o" -> 111 [] c = "p" -> 112
          [] c = "r" -> 114 [] c = "s" -> 115 [] c = "t" -> 116
          [] c = "u" -> 117 [] c = "x" -> 120 ]

\* The characters of each display name, in order.
Spell ==
    [ d \in DisplayNames |->
        CASE d = "Claude Haiku"      -> <<"C","l","a","u","d","e"," ","H","a","i","k","u">>
          [] d = "Claude Opus"       -> <<"C","l","a","u","d","e"," ","O","p","u","s">>
          [] d = "Claude Sonnet"     -> <<"C","l","a","u","d","e"," ","S","o","n","n","e","t">>
          [] d = "Claude Sonnet 3.5" -> <<"C","l","a","u","d","e"," ","S","o","n","n","e","t"," ","3",".","5">>
          [] d = "GPT-3"             -> <<"G","P","T","-","3">>
          [] d = "GPT-4 Turbo"       -> <<"G","P","T","-","4"," ","T","u","r","b","o">>
          [] d = "GPT-4o"            -> <<"G","P","T","-","4","o">>
          [] d = "GPT-4o Mini"       -> <<"G","P","T","-","4","o"," ","M","i","n","i">>
          [] d = "Grok 2"            -> <<"G","r","o","k"," ","2">>
          [] d = "Llama 2"           -> <<"L","l","a","m","a"," ","2">>
          [] d = "Llama 3"           -> <<"L","l","a","m","a"," ","3">>
          [] d = "Mixtral"           -> <<"M","i","x","t","r","a","l">>
          [] d = "Gemini 1.5 Flash"  -> <<"G","e","m","i","n","i"," ","1",".","5"," ","F","l","a","s","h">>
          [] d = "Gemini 1.5 Pro"    -> <<"G","e","m","i","n","i"," ","1",".","5"," ","P","r","o">>
          [] d = "Gemini 2.0 Flash"  -> <<"G","e","m","i","n","i"," ","2",".","0"," ","F","l","a","s","h">> ]

\* s < t for two Python strings: lexicographic on code points, a proper
\* prefix being smaller.
RECURSIVE LexLess(_, _)
LexLess(s, t) ==
    IF t = <<>> THEN FALSE
    ELSE IF s = <<>> THEN TRUE
    ELSE IF Ord[Head(s)] # Ord[Head(t)] THEN Ord[Head(s)] < Ord[Head(t)]
    ELSE LexLess(Tail(s), Tail(t))

\* a < b for two display names.
NameLess(a, b) == LexLess(Spell[a], Spell[b])

(***************************************************************************)
(* Cells of a CSV file and their conversions.                              *)
(***************************************************************************)
\* pandas' missing value: an empty CSV field is read as NaN.
NaN == <<>>

\* str.strip(): leading and trailing whitespace removed (the blank is the
\* only whitespace character of the modelled texts).
RECURSIVE LStrip(_)
LStrip(s) == IF s # <<>> /\ Head(s) = " " THEN LStrip(Tail(s)) ELSE s

RECURSIVE RStrip(_)
RStrip(s) ==
    IF s # <<>> /\ s[Len(s)] = " " THEN RStrip(SubSeq(s, 1, Len(s) - 1)) ELSE s

Strip(s) == RStrip(LStrip(s))

Digits == { "0", "1", "2", "3", "4", "5", "6", "7", "8", "9" }

DigitVal ==
    [ c \in Digits |->
        CASE c = "0" -> 0 [] c = "1" -> 1 [] c = "2" -> 2 [] c = "3" -> 3
          [] c = "4" -> 4 [] c = "5" -> 5 [] c = "6" -> 6 [] c = "7" -> 7
          [] c = "8" -> 8 [] c = "9" -> 9 ]

AllDigits(s) == \A k \in 1..Len(s) : s[k] \in Digits

\* The value of a non-empty run of decimal digits.
RECURSIVE DecimalValue(_)
DecimalValue(s) ==
    IF s = <<>> THEN 0
    ELSE 10 * DecimalValue(SubSeq(s, 1, Len(s) - 1)) + DigitVal[s[Len(s)]]

\* The position of the first "." of s, or 0.
DotAt(s) ==
    IF \E k \in 1..Len(s) : s[k] = "."
    THEN CHOOSE k \in 1..Len(s) : s[k] = "." /\ \A j \in 1..(k - 1) : s[j] # "."
    ELSE 0

\* An unsigned decimal literal: digits, digits "." digits, digits ".",
\* "." digits.  The result is an optional number [whole, frac].
ParseUnsigned(s) ==
    LET d == DotAt(s)
        w == IF d = 0 THEN s ELSE SubSeq(s, 1, d - 1)
        f == IF d = 0 THEN <<>> ELSE SubSeq(s, d + 1, Len(s))
    IN  IF AllDigits(w) /\ AllDigits(f) /\ (w # <<>> \/ f # <<>>)
        THEN << [whole |-> DecimalValue(w), frac |-> f] >>
        ELSE NaN

\* A to_numeric that turns what it cannot parse into 0 instead of NaN.
ToNumericFill(cell) ==
    LET neg  == cell # <<>> /\ Head(cell) = "-"
        body == IF cell # <<>> /\ Head(cell) \in { "-", "+" } THEN Tail(cell) ELSE cell
        u    == ParseUnsigned(body)
    IN  IF u = NaN THEN << [neg |-> FALSE, whole |-> 0, frac |-> <<>>] >>
        ELSE << [neg |-> neg, whole |-> u[1].whole, frac |-> u[1].frac] >>

\* pd.to_numeric(cell, errors="coerce") of one cell: the number the text
\* denotes as [neg, whole, frac], or NaN when the cell is missing or is not
\* a decimal literal.
ToNumeric(cell) ==
    LET neg  == cell # <<>> /\ Head(cell) = "-"
        body == IF cell # <<>> /\ Head(cell) \in { "-", "+" } THEN Tail(cell) ELSE cell
        u    == ParseUnsigned(body)
    IN  IF u = NaN THEN NaN
        ELSE << [neg |-> neg, whole |-> u[1].whole, frac |-> u[1].frac] >>

\* float.astype(int) of a number: truncation toward zero.
AsInt(n) == IF n.neg THEN 0 - n.whole ELSE n.whole

(***************************************************************************)
(* The remote files of the modelled environment.                           *)
(***************************************************************************)
\* A parsed file: the names of its columns and its rows; a row gives the
\* text of its chapter, verse and orig fields (NaN for a column the file
\* does not have).  The headers of the modelled files are lower-case and
\* carry no blanks, and no file has a column named "model" of its own.
Row(c, v, o) == [chapter |-> c, verse |-> v, orig |-> o]

AllColumns == { "chapter", "verse", "orig" }

Tables ==
    { \* one verse, its original text padded with blanks
      [columns |-> AllColumns,
       rows    |-> << Row(<<"1">>, <<"1">>, <<" ", "a", " ">>) >>],
      \* the same verse twice, the first time without its original text
      [columns |-> AllColumns,
       rows    |-> << Row(<<"1">>, <<"1">>, NaN), Row(<<"1">>, <<"1">>, <<"b">>) >>],
      \* a non-numeric chapter, a fractional verse, a missing original text
      [columns |-> AllColumns,
       rows    |-> << Row(<<"o", "n", "e">>, <<"1">>, <<"a">>),
                      Row(<<"2">>, <<"2", ".", "5">>, <<"b">>),
                      Row(<<"1">>, <<"2">>, NaN) >>],
      \* numeric but not positive, in a file without an orig column
      [columns |-> { "chapter", "verse" },
       rows    |-> << Row(<<"0">>, <<"-", "1">>, NaN) >>],
      \* no row with a numeric chapter and a numeric verse
      [columns |-> AllColumns,
       rows    |-> << Row(<<"o", "n", "e">>, <<"1">>, <<"a">>),
                      Row(<<"1">>, NaN, <<"a">>) >>],
      \* no chapter column
      [columns |-> { "verse", "orig" },
       rows    |-> << Row(NaN, <<"1">>, <<"a">>) >>] }

\* The files the remote host can answer for: a request for any other file
\* ends in a network error.  They are not in the order of their display
\* names: "Gemini ..." sorts before "Mixtral".
Hosted ==
    { "Mixtral.csv", "gemini_1.5_flash.csv", "gemini_1.5_pro.csv",
      "gemini_2.0_flash.csv" }

\* Why a request can fail after the host answered, and without an answer.
HttpFailures == { "404 Client Error", "Error tokenizing data" }
NetworkFailure == "Read timed out"

(***************************************************************************)
(* The state.                                                              *)
(***************************************************************************)
VARIABLES
    pc,       \* "idle" between script runs, "loading" inside load_all_data
    i,        \* load_all_data: index in CSV_FILES of the next file, 0 when idle
    frames,   \* load_all_data: frames, each the parsed table and its Model tag
    errors,   \* load_all_data: errors, each a display name and an error text
    fetched,  \* the file names requested over the network since the process started
    cache,    \* st.cache_data: <<>> or << the value load_all_data returned >>
    ui,       \* the session's widget state after the last run, <<>> if none was drawn
    out,      \* what the last script run rendered, in order
    trace     \* the parts of main() the last script run executed, in order

vars == << pc, i, frames, errors, fetched, cache, ui, out, trace >>

None == <<>>

(***************************************************************************)
(* load_all_data: concatenation and normalisation.                         *)
(***************************************************************************)
\* The rows of one frame after pd.concat(frames, ignore_index=True): each
\* gets the next row label and carries its frame's Model tag.
FrameRows(fr, base) ==
    [ k \in 1..Len(fr.table.rows) |->
        [ idx     |-> base + k - 1,
          model   |-> fr.model,
          chapter |-> fr.table.rows[k].chapter,
          verse   |-> fr.table.rows[k].verse,
          orig    |-> fr.table.rows[k].orig ] ]

RECURSIVE ConcatFrom(_, _)
ConcatFrom(frs, base) ==
    IF frs = <<>> THEN <<>>
    ELSE FrameRows(Head(frs), base)
           \o ConcatFrom(Tail(frs), base + Len(Head(frs).table.rows))

Concat(frs) == ConcatFrom(frs, 0)

\* The column names of the concatenation, lower-cased: the union of the
\* frames' columns and the Model tag.
CombinedColumns(frs) ==
    UNION { frs[k].table.columns : k \in 1..Len(frs) } \cup { "model" }

\* pd.to_numeric(..., errors="coerce") on the chapter and verse columns.
CoerceColumns(rows) ==
    [ k \in 1..Len(rows) |->
        [ rows[k] EXCEPT !.chapter = ToNumeric(rows[k].chapter),
                         !.verse   = ToNumeric(rows[k].verse) ] ]

\* combined.dropna(subset=["chapter", "verse"]).
DropNa(rows) ==
    LET Kept(r) == r.chapter # NaN /\ r.verse # NaN
    IN  SelectSeq(rows, Kept)

\* .astype(int) on the chapter and verse columns.
CastInt(rows) ==
    [ k \in 1..Len(rows) |->
        [ rows[k] EXCEPT !.chapter = AsInt(rows[k].chapter[1]),
                         !.verse   = AsInt(rows[k].verse[1]) ] ]

\* The DataFrame load_all_data returns.
Normalise(frs) ==
    [ columns |-> CombinedColumns(frs),
      rows    |-> CastInt(DropNa(CoerceColumns(Concat(frs)))) ]

\* combined["chapter"] or combined["verse"] raises KeyError.
MissingKeyColumn(frs) ==
    ~ ({ "chapter", "verse" } \subseteq CombinedColumns(frs))

(***************************************************************************)
(* Sorting.                                                                *)
(***************************************************************************)
\* sorted(...) of a set of integers.
RECURSIVE SortedInts(_)
SortedInts(S) ==
    IF S = {} THEN <<>>
    ELSE LET m == CHOOSE x \in S : \A y \in S : x <= y
         IN  << m >> \o SortedInts(S \ { m })

\* sorted(...) of a set of display names.
RECURSIVE SortedNames(_)
SortedNames(S) ==
    IF S = {} THEN <<>>
    ELSE LET m == CHOOSE x \in S : \A y \in S : x = y \/ NameLess(x, y)
         IN  << m >> \o SortedNames(S \ { m })

\* r inserted into a sequence sorted by model, after the rows that are not
\* greater.
RECURSIVE InsertByModel(_, _)
InsertByModel(sorted, r) ==
    IF sorted = <<>> THEN << r >>
    ELSE IF NameLess(r.model, Head(sorted).model) THEN << r >> \o sorted
    ELSE << Head(sorted) >> \o InsertByModel(Tail(sorted), r)

\* The rows left in the order of the DataFrame.
Unsorted(rows) == rows

\* verse_data.sort_values("model"); rows of the same model keep their order
\* (the insertion sort NumPy applies to fewer than 16 rows).
RECURSIVE SortByModel(_)
SortByModel(rows) ==
    IF rows = <<>> THEN <<>>
    ELSE InsertByModel(SortByModel(SubSeq(rows, 1, Len(rows) - 1)), rows[Len(rows)])

Range(s) == { s[k] : k \in 1..Len(s) }

(***************************************************************************)
(* main(): the widgets.                                                    *)
(***************************************************************************)
\* sorted(data["chapter"].unique())
Chapters(data) == SortedInts({ r.chapter : r \in Range(data.rows) })

\* sorted(data.loc[data["chapter"] == selected_chapter, "verse"].unique())
VersesIn(data, selected_chapter) ==
    IF selected_chapter = None THEN <<>>
    ELSE SortedInts({ r.verse : r \in { q \in Range(data.rows) :
                                          q.chapter = selected_chapter[1] } })

\* sorted(data["model"].unique())
AllModels(data) == SortedNames({ r.model : r \in Range(data.rows) })

\* st.selectbox(label, options): None when there is no option; the value
\* the widget holds when it holds one of the options; the first option of a
\* widget drawn for the first time.
Selectbox(options, held) ==
    IF options = <<>> THEN None
    ELSE IF held # None /\ held[1] \in Range(options) THEN held
    ELSE << options[1] >>

\* The interaction that triggers a script run: which widget the user
\* changed and to what.
NoEvent == [widget |-> "none"]
Event(w, v) == [widget |-> w, value |-> v]

(***************************************************************************)
(* main(): from the loaded data and the widget state to the page.          *)
(***************************************************************************)
\* The st.warning of each load error, inside the expander.
Warnings(errs) ==
    [ k \in 1..Len(errs) |->
        [kind |-> "warning", name |-> errs[k].name, error |-> errs[k].error] ]

\* data.loc[mask]
FilterData(data, selected_chapter, selected_verse, selected_models) ==
    LET Mask(r) == /\ << r.chapter >> = selected_chapter
                   /\ << r.verse >> = selected_verse
                   /\ r.model \in selected_models
    IN  SelectSeq(data.rows, Mask)

\* The header taken from the rows sorted by model.
ArabicHeaderSorted(data, verse_data) ==
    LET Present(r) == r.orig # NaN
        present == SelectSeq(SortByModel(verse_data), Present)
    IN  IF "orig" \in data.columns /\ present # <<>>
        THEN << [kind |-> "header", text |-> Strip(present[1].orig)],
                [kind |-> "divider"] >>
        ELSE <<>>

\* The Arabic original: drawn iff verse_data has an orig column with a
\* value that is not missing; the first such value, stripped.
ArabicHeader(data, verse_data) ==
    LET Present(r) == r.orig # NaN
        present == SelectSeq(verse_data, Present)
    IN  IF "orig" \in data.columns /\ present # <<>>
        THEN << [kind |-> "header", text |-> Strip(present[1].orig)],
                [kind |-> "divider"] >>
        ELSE <<>>

\* One section and its divider per row, in the order given.
RECURSIVE Sections(_)
Sections(rows) ==
    IF rows = <<>> THEN <<>>
    ELSE << [kind |-> "section", row |-> Head(rows)], [kind |-> "divider"] >>
           \o Sections(Tail(rows))

\* A main() without the early return.
NeverNoSelection(selected_models) == FALSE

\* "not selected_models": the multiselect returned an empty list.
NoSelection(selected_models) == selected_models = {}

\* One execution of main() after load_all_data returned (data, errs): prev
\* is the widget state of the previous run of the session (None for a first
\* run), ev the interaction that triggered this run.  A widget keeps its
\* value from one run to the next only while it is drawn with the same
\* options and default.
Main(data, errs, prev, ev) ==
    LET chapters == Chapters(data)
        heldChapter ==
            IF ev.widget = "chapter" THEN << ev.value >>
            ELSE IF prev = None THEN None ELSE prev[1].chapter
        selected_chapter == Selectbox(chapters, heldChapter)
        verses_in_chapter == VersesIn(data, selected_chapter)
        sameVerseBox ==
            prev # None /\ VersesIn(data, prev[1].chapter) = verses_in_chapter
        heldVerse ==
            IF ~ sameVerseBox THEN None
            ELSE IF ev.widget = "verse" THEN << ev.value >>
            ELSE prev[1].verse
        selected_verse == Selectbox(verses_in_chapter, heldVerse)
        all_models == AllModels(data)
        select_all ==
            IF ev.widget = "select_all" THEN ev.value
            ELSE IF prev = None THEN TRUE ELSE prev[1].select_all
        sameMultiselect == prev # None /\ prev[1].select_all = select_all
        selected_models ==
            IF ~ sameMultiselect
            THEN (IF select_all THEN Range(all_models) ELSE {})
            ELSE IF ev.widget = "models" THEN ev.value
            ELSE prev[1].models
        sidebar ==
            << [kind |-> "chapters", options |-> chapters],
               [kind |-> "verses", options |-> verses_in_chapter],
               [kind |-> "models", options |-> all_models] >>
        verse_data ==
            FilterData(data, selected_chapter, selected_verse, selected_models)
        header == ArabicHeader(data, verse_data)
        widgets ==
            << [chapter    |-> selected_chapter,
                verse      |-> selected_verse,
                select_all |-> select_all,
                models     |-> selected_models] >>
    IN  IF NoSelection(selected_models)
        THEN [ui    |-> widgets,
              out   |-> Warnings(errs) \o sidebar \o << [kind |-> "info"] >>,
              trace |-> << "load", "sidebar", "info" >>]
        ELSE [ui    |-> widgets,
              out   |-> Warnings(errs) \o sidebar \o header
                          \o << [kind    |-> "subheader",
                                 chapter |-> selected_chapter,
                                 verse   |-> selected_verse] >>
                          \o Sections(SortByModel(verse_data)),
              trace |-> << "load", "sidebar", "filter" >>
                          \o (IF header # <<>> THEN << "header" >> ELSE <<>>)
                          \o << "subheader", "sections" >>]

(***************************************************************************)
(* Initial state: the process has started and no script run has begun.     *)
(***************************************************************************)
Init ==
    /\ pc = "idle"
    /\ i = 0
    /\ frames = <<>>
    /\ errors = <<>>
    /\ fetched = <<>>
    /\ cache = None
    /\ ui = None
    /\ out = <<>>
    /\ trace = <<>>

(***************************************************************************)
(* load_all_data on a cache miss, one loop iteration per step.             *)
(***************************************************************************)
\* The requests of this load that the host answered.
Answered ==
    Len(frames)
      + Cardinality({ k \in 1..Len(errors) : errors[k].error # NetworkFailure })

\* A script run starts and finds the cache empty: load_all_data's body runs.
RunScript ==
    /\ pc = "idle"
    /\ cache = None
    /\ Len(fetched) < MaxLoads * Len(CSV_FILES)
    /\ pc' = "loading"
    /\ i' = 1
    /\ frames' = <<>>
    /\ errors' = <<>>
    /\ ui' = None
    /\ out' = <<>>
    /\ trace' = << "load" >>
    /\ UNCHANGED << fetched, cache >>

\* requests.get, raise_for_status and read_csv succeed: the frame is tagged
\* with the display name and appended.
FetchOk(t) ==
    /\ pc = "loading"
    /\ i <= Len(CSV_FILES)
    /\ CSV_FILES[i] \in Hosted
    /\ Answered < MaxUp
    /\ fetched' = Append(fetched, CSV_FILES[i])
    /\ frames' = Append(frames, [model |-> MODEL_DISPLAY_NAMES[CSV_FILES[i]],
                                 table |-> t])
    /\ i' = i + 1
    /\ UNCHANGED << pc, errors, cache, ui, out, trace >>

\* A loop whose frames.append is outside the try: the failure is recorded
\* and a frame is appended all the same.
FetchRejectedKeepsFrame(e) ==
    /\ pc = "loading"
    /\ i <= Len(CSV_FILES)
    /\ CSV_FILES[i] \in Hosted
    /\ Answered < MaxUp
    /\ fetched' = Append(fetched, CSV_FILES[i])
    /\ errors' = Append(errors, [name  |-> MODEL_DISPLAY_NAMES[CSV_FILES[i]],
                                 error |-> e])
    /\ \E t \in Tables :
          frames' = Append(frames, [model |-> MODEL_DISPLAY_NAMES[CSV_FILES[i]],
                                    table |-> t])
    /\ i' = i + 1
    /\ UNCHANGED << pc, cache, ui, out, trace >>

\* The host answers, and raise_for_status or read_csv raises.
FetchRejected(e) ==
    /\ pc = "loading"
    /\ i <= Len(CSV_FILES)
    /\ CSV_FILES[i] \in Hosted
    /\ Answered < MaxUp
    /\ fetched' = Append(fetched, CSV_FILES[i])
    /\ errors' = Append(errors, [name  |-> MODEL_DISPLAY_NAMES[CSV_FILES[i]],
                                 error |-> e])
    /\ i' = i + 1
    /\ UNCHANGED << pc, frames, cache, ui, out, trace >>

\* A loop that a network error ends: the error is recorded and the
\* remaining files are skipped.
FetchTimeoutAborts ==
    /\ pc = "loading"
    /\ i <= Len(CSV_FILES)
    /\ fetched' = Append(fetched, CSV_FILES[i])
    /\ errors' = Append(errors, [name  |-> MODEL_DISPLAY_NAMES[CSV_FILES[i]],
                                 error |-> NetworkFailure])
    /\ i' = Len(CSV_FILES) + 1
    /\ UNCHANGED << pc, frames, cache, ui, out, trace >>

\* requests.get raises: no answer within the timeout.
FetchTimeout ==
    /\ pc = "loading"
    /\ i <= Len(CSV_FILES)
    /\ fetched' = Append(fetched, CSV_FILES[i])
    /\ errors' = Append(errors, [name  |-> MODEL_DISPLAY_NAMES[CSV_FILES[i]],
                                 error |-> NetworkFailure])
    /\ i' = i + 1
    /\ UNCHANGED << pc, frames, cache, ui, out, trace >>

\* A loader without st.stop: after the error message, main() goes on with
\* an empty DataFrame.
LoadStopsContinues ==
    /\ pc = "loading"
    /\ i > Len(CSV_FILES)
    /\ frames = <<>>
    /\ \E run \in { Main([columns |-> { "model" }, rows |-> <<>>], errors,
                         None, NoEvent) } :
           /\ ui' = run.ui
           /\ out' = << [kind |-> "error"] >> \o run.out
           /\ trace' = run.trace
    /\ pc' = "idle"
    /\ i' = 0
    /\ frames' = <<>>
    /\ errors' = <<>>
    /\ UNCHANGED << fetched, cache >>

\* After the loop, no frame: st.error and st.stop end the script run.
\* Nothing is returned, so nothing is cached.
LoadStops ==
    /\ pc = "loading"
    /\ i > Len(CSV_FILES)
    /\ frames = <<>>
    /\ pc' = "idle"
    /\ i' = 0
    /\ frames' = <<>>
    /\ errors' = <<>>
    /\ out' = << [kind |-> "error"] >>
    /\ trace' = << "load", "stop" >>
    /\ UNCHANGED << fetched, cache, ui >>

\* After the loop, frames without a chapter or a verse column: the lookup
\* raises KeyError, which ends the script run.  Nothing is cached.
LoadRaises ==
    /\ pc = "loading"
    /\ i > Len(CSV_FILES)
    /\ frames # <<>>
    /\ MissingKeyColumn(frames)
    /\ pc' = "idle"
    /\ i' = 0
    /\ frames' = <<>>
    /\ errors' = <<>>
    /\ out' = << [kind |-> "exception"] >>
    /\ trace' = << "load", "raise" >>
    /\ UNCHANGED << fetched, cache, ui >>

\* After the loop, load_all_data returns: the value is cached and main()
\* goes on with the widgets of a first run.
LoadReturns ==
    /\ pc = "loading"
    /\ i > Len(CSV_FILES)
    /\ frames # <<>>
    /\ ~ MissingKeyColumn(frames)
    /\ \E data \in { Normalise(frames) } :
         \E run \in { Main(data, errors, None, NoEvent) } :
           /\ cache' = << [data |-> data, errors |-> errors] >>
           /\ ui' = run.ui
           /\ out' = run.out
           /\ trace' = run.trace
    /\ pc' = "idle"
    /\ i' = 0
    /\ frames' = <<>>
    /\ errors' = <<>>
    /\ UNCHANGED fetched

(***************************************************************************)
(* Script runs on a cache hit: load_all_data returns the cached value.     *)
(***************************************************************************)
\* A load_all_data without memoization: the run forgets the cached value
\* and executes the loader's body again.
UncachedRun(prev, ev) ==
    /\ pc = "idle"
    /\ cache # None
    /\ Len(fetched) < MaxLoads * Len(CSV_FILES)
    /\ pc' = "loading"
    /\ i' = 1
    /\ frames' = <<>>
    /\ errors' = <<>>
    /\ cache' = None
    /\ ui' = None
    /\ out' = <<>>
    /\ trace' = << "load" >>
    /\ UNCHANGED fetched

CachedRun(prev, ev) ==
    /\ pc = "idle"
    /\ cache # None
    /\ \E run \in { Main(cache[1].data, cache[1].errors, prev, ev) } :
           /\ ui' = run.ui
           /\ out' = run.out
           /\ trace' = run.trace
    /\ UNCHANGED << pc, i, frames, errors, fetched, cache >>

\* The user reruns the script without touching a widget.
Rerun == ui # None /\ CachedRun(ui, NoEvent)

\* A new browser session of the same process: no widget state.
NewSession == ui # None /\ CachedRun(None, NoEvent)

\* The user picks another chapter of the chapter selectbox.
SelectChapter ==
    /\ cache # None /\ ui # None
    /\ \E c \in Range(Chapters(cache[1].data)) :
          /\ << c >> # ui[1].chapter
          /\ CachedRun(ui, Event("chapter", c))

\* The user picks another verse of the verse selectbox.
SelectVerse ==
    /\ cache # None /\ ui # None
    /\ \E v \in Range(VersesIn(cache[1].data, ui[1].chapter)) :
          /\ << v >> # ui[1].verse
          /\ CachedRun(ui, Event("verse", v))

\* The user ticks or unticks "Select all models".
ToggleSelectAll ==
    /\ cache # None /\ ui # None
    /\ CachedRun(ui, Event("select_all", ~ ui[1].select_all))

\* The user changes the choice of the models multiselect.
SelectModels ==
    /\ cache # None /\ ui # None
    /\ \E S \in SUBSET Range(AllModels(cache[1].data)) :
          /\ S # ui[1].models
          /\ CachedRun(ui, Event("models", S))

Next ==
    \/ RunScript
    \/ \E t \in Tables : FetchOk(t)
    \/ \E e \in HttpFailures : FetchRejected(e)
    \/ FetchTimeout
    \/ LoadStops
    \/ LoadRaises
    \/ LoadReturns
    \/ Rerun
    \/ NewSession
    \/ SelectChapter
    \/ SelectVerse
    \/ ToggleSelectAll
    \/ SelectModels

Spec == Init /\ [][Next]_vars

(***************************************************************************)
(* Reading the state: the loaded data and the page of the last run.        *)
(***************************************************************************)
Loaded == cache # None
Corpus == cache[1].data.rows
LoadReport == cache[1].errors
LoaderReturned == pc = "loading" /\ cache' # None
DisplayOf(k) == MODEL_DISPLAY_NAMES[CSV_FILES[k]]
FrameModels == { frames[k].model : k \in 1..Len(frames) }
ErrorNames == { errors[k].name : k \in 1..Len(errors) }

ItemsOf(kind) ==
    LET Is(it) == it.kind = kind
    IN  SelectSeq(out, Is)
PositionsOf(kind) == { j \in 1..Len(out) : out[j].kind = kind }
SectionRows == [ j \in 1..Len(ItemsOf("section")) |-> ItemsOf("section")[j].row ]
ChapterChoices == ItemsOf("chapters")[1].options
VerseChoices == ItemsOf("verses")[1].options
ModelChoices == ItemsOf("models")[1].options

\* The records of the Corpus that match the selections of the last run.
Matching ==
    { r \in Range(Corpus) : /\ << r.chapter >> = ui[1].chapter
                            /\ << r.verse >> = ui[1].verse
                            /\ r.model \in ui[1].models }
WithOriginal == { r \in Matching : r.orig # NaN }

\* t is o without its leading and trailing blanks.
IsTrimOf(t, o) ==
    /\ t = <<>> \/ (t[1] # " " /\ t[Len(t)] # " ")
    /\ \E a \in 0..Len(o) :
          /\ a + Len(t) <= Len(o)
          /\ \A k \in 1..Len(o) :
                IF k > a /\ k <= a + Len(t) THEN o[k] = t[k - a] ELSE o[k] = " "

\* The page shows the original text of r, trimmed, once and above every
\* section.
HeaderShows(r) ==
    /\ Cardinality(PositionsOf("header")) = 1
    /\ IsTrimOf(ItemsOf("header")[1].text, r.orig)
    /\ \A h \in PositionsOf("header") : \A j \in PositionsOf("section") : h < j

(***************************************************************************)
(* C1: load_all_data attempts every file of the list exactly once, in list *)
(* order, whatever the outcome of the earlier ones; each attempted file    *)
(* has either a frame or an error entry under its display name, never      *)
(* both; the loop has covered the whole list when the loader ends; and the *)
(* report returned has exactly one entry for each file without a frame and *)
(* none for a file with one.                                               *)
(***************************************************************************)
C1_Loading ==
    pc = "loading" =>
      /\ i - 1 <= Len(fetched)
      /\ (Len(fetched) - (i - 1)) % Len(CSV_FILES) = 0
      /\ SubSeq(fetched, Len(fetched) - (i - 1) + 1, Len(fetched))
           = SubSeq(CSV_FILES, 1, i - 1)
      /\ Len(frames) + Len(errors) = i - 1
      /\ FrameModels \cap ErrorNames = {}
      /\ FrameModels \cup ErrorNames = { DisplayOf(k) : k \in 1..(i - 1) }

C1_Ending ==
    (pc = "loading" /\ pc' = "idle") =>
      /\ i = Len(CSV_FILES) + 1
      /\ cache' # None =>
           /\ frames # <<>>
           /\ \A k \in 1..Len(CSV_FILES) :
                Cardinality({ j \in 1..Len(cache'[1].errors) :
                                cache'[1].errors[j].name = DisplayOf(k) })
                  = IF DisplayOf(k) \in FrameModels THEN 0 ELSE 1

\* C1: every file is attempted once, in list order, whatever failed before
\* it, and the report returned names exactly the files without a frame.
C1_PartialFailure == [] C1_Loading /\ [][C1_Ending]_vars

\* A load returned although the first hosted file was rejected and the
\* others timed out or came later: a later file made it into the Corpus.
C1_Witness ==
    /\ Loaded
    /\ \E k \in 1..Len(LoadReport) :
          LoadReport[k].name = "Mixtral" /\ LoadReport[k].error = "404 Client Error"
    /\ \E k \in 1..Len(LoadReport) : LoadReport[k].error = NetworkFailure
    /\ \E r \in Range(Corpus) : r.model = "Gemini 1.5 Pro"

(***************************************************************************)
(* C2: when every file of the list failed, the script run ends inside the  *)
(* loader with the blocking error: nothing is returned or cached, no       *)
(* widget is drawn and nothing else is rendered.                           *)
(***************************************************************************)
C2_Step ==
    (pc = "loading" /\ i > Len(CSV_FILES) /\ Len(errors) = Len(CSV_FILES)) =>
      /\ pc' = "idle"
      /\ cache' = None
      /\ ui' = None
      /\ trace' = << "load", "stop" >>
      /\ Len(out') = 1 /\ out'[1].kind = "error"

C2_Stopped ==
    trace = << "load", "stop" >> =>
      /\ cache = None
      /\ ui = None
      /\ \A j \in 1..Len(out) : out[j].kind = "error"

\* C2: a load in which every file failed ends the run inside the loader;
\* nothing is cached, no widget is drawn, only the error is rendered.
C2_TotalFailureHalts == [] C2_Stopped /\ [][C2_Step]_vars

C2_Witness == trace = << "load", "stop" >> /\ Len(fetched) = Len(CSV_FILES)

(***************************************************************************)
(* C3: with a non-empty choice of models, the sections rendered are        *)
(* exactly the records of the Corpus with the selected chapter, the        *)
(* selected verse and a selected model, each once (two records of the same *)
(* chapter, verse and model are both rendered), in ascending order of the  *)
(* model's display name.                                                   *)
(***************************************************************************)
C3_SelectionExact ==
    (Loaded /\ ui # None /\ ui[1].models # {}) =>
      /\ << ui[1].chapter[1] >> = ui[1].chapter
      /\ ui[1].chapter[1] \in Range(ChapterChoices)
      /\ ui[1].verse[1] \in Range(VerseChoices)
      /\ ui[1].models \subseteq Range(ModelChoices)
      /\ Range(SectionRows) = Matching
      /\ \A j, k \in 1..Len(SectionRows) :
            j < k => /\ SectionRows[j].idx # SectionRows[k].idx
                     /\ ~ NameLess(SectionRows[k].model, SectionRows[j].model)

\* Three sections: Gemini first although its file comes after Mixtral's in
\* the list, then the two Mixtral records of the same verse.
C3_Witness ==
    /\ Loaded /\ ui # None
    /\ Len(SectionRows) = 3
    /\ SectionRows[1].model = "Gemini 1.5 Flash"
    /\ SectionRows[2].model = "Mixtral"
    /\ SectionRows[3].model = "Mixtral"
    /\ SectionRows[1].idx > SectionRows[3].idx

(***************************************************************************)
(* C4: once load_all_data has returned, no later script run requests a     *)
(* file, and each gets the Corpus and LoadReport of the first return.      *)
(***************************************************************************)
C4_Idempotent == [][Loaded => (cache' = cache /\ fetched' = fetched)]_vars

\* A later run, after the user unticked "Select all models".
C4_Witness ==
    /\ Loaded /\ ui # None
    /\ ~ ui[1].select_all
    /\ Len(fetched) = Len(CSV_FILES)

(***************************************************************************)
(* C5: whenever at least one file was fetched and parsed, load_all_data    *)
(* returns, and returns a Corpus with at least one record.                 *)
(***************************************************************************)
C5_NonEmptyCorpus ==
    [][(pc = "loading" /\ i > Len(CSV_FILES) /\ frames # <<>>) =>
         (cache' # None /\ cache'[1].data.rows # <<>>)]_vars

(***************************************************************************)
(* C6: the chapter and verse of every record of the Corpus are integers,   *)
(* a row whose chapter or verse is missing or not numeric is not in the    *)
(* Corpus that is returned, and the choice sets and the sections of every  *)
(* page come from the Corpus alone.  The original claim also has every     *)
(* chapter and verse positive.                                             *)
(***************************************************************************)
\* No decimal literal has a character of this cell, or the cell is missing.
NotNumeric(cell) ==
    \/ cell = NaN
    \/ \E k \in 1..Len(cell) : cell[k] \notin Digits \cup { "-", "+", "." }

C6_Integers ==
    Loaded => \A r \in Range(Corpus) : r.chapter \in Int /\ r.verse \in Int

C6_Positive ==
    Loaded => \A r \in Range(Corpus) : r.chapter > 0 /\ r.verse > 0

C6_Dropped ==
    LoaderReturned =>
      LET source == Concat(frames)
          kept == cache'[1].data.rows
      IN  /\ \A k \in 1..Len(source) :
                (NotNumeric(source[k].chapter) \/ NotNumeric(source[k].verse))
                  => \A r \in Range(kept) : r.idx # source[k].idx
          /\ \A r \in Range(kept) :
                \E k \in 1..Len(source) :
                   source[k].idx = r.idx /\ source[k].model = r.model

C6_PageFromCorpus ==
    (Loaded /\ ui # None) =>
      /\ Range(ChapterChoices) \subseteq { r.chapter : r \in Range(Corpus) }
      /\ Range(VerseChoices) \subseteq { r.verse : r \in Range(Corpus) }
      /\ Range(SectionRows) \subseteq Range(Corpus)

\* C6 as claimed: every chapter and verse of the Corpus is positive, rows
\* whose chapter or verse is missing or not numeric are dropped, and pages
\* show records of the Corpus only.
C6_Original ==
    [] C6_Positive /\ [] C6_PageFromCorpus /\ [][C6_Dropped]_vars

\* C6 amended: every chapter and verse of the Corpus is an integer (not
\* necessarily positive), rows whose chapter or verse is missing or not
\* numeric are dropped, and pages show records of the Corpus only.
C6_Amended ==
    [] C6_Integers /\ [] C6_PageFromCorpus /\ [][C6_Dropped]_vars

\* The file with the row of chapter "one" was loaded first: its first row
\* (label 0) is gone, its second row (verse "2.5") is the first record.
C6_Witness ==
    /\ Loaded /\ ui # None
    /\ Corpus # <<>>
    /\ Corpus[1].idx = 1 /\ Corpus[1].chapter = 2 /\ Corpus[1].verse = 2
    /\ SectionRows # <<>>

(***************************************************************************)
(* C7: a file that failed during the load that was cached is not requested *)
(* again, and its display name is in no model choice set, no selection and *)
(* no section of any later page.                                           *)
(***************************************************************************)
C7_Omitted ==
    (Loaded /\ ui # None) =>
      \A k \in 1..Len(LoadReport) :
         /\ LoadReport[k].name \notin Range(ModelChoices)
         /\ LoadReport[k].name \notin ui[1].models
         /\ \A r \in Range(SectionRows) : r.model # LoadReport[k].name

\* C7: the display name of a file that failed in the cached load is in no
\* model choice set, selection or section, and no run after the load
\* requests a file or changes the report.
C7_NoRetry ==
    [] C7_Omitted
      /\ [][Loaded => (fetched' = fetched /\ cache'[1].errors = cache[1].errors)]_vars

\* Mixtral's file failed; the user has since made a selection of their own.
C7_Witness ==
    /\ Loaded /\ ui # None
    /\ \E k \in 1..Len(LoadReport) :
          LoadReport[k].name = "Mixtral" /\ LoadReport[k].error # NetworkFailure
    /\ ~ ui[1].select_all
    /\ ui[1].models # {}
    /\ SectionRows # <<>>

(***************************************************************************)
(* C8: with no model selected the run shows the "select a model" note and  *)
(* returns: no filter, no header, no subheading, no section.               *)
(***************************************************************************)
C8_NoSelection ==
    (ui # None /\ ui[1].models = {}) =>
      /\ trace = << "load", "sidebar", "info" >>
      /\ Cardinality(PositionsOf("info")) = 1
      /\ out[Len(out)].kind = "info"
      /\ \A j \in 1..Len(out) :
            out[j].kind \notin { "header", "subheader", "section", "divider" }

\* The user unticked "Select all models" and chose none, with models to
\* choose from.
C8_Witness ==
    /\ Loaded /\ ui # None
    /\ ModelChoices # <<>>
    /\ ~ ui[1].select_all
    /\ ui[1].models = {}

(***************************************************************************)
(* C9: the header shows, trimmed, the original text of the first matched   *)
(* record that has one; it is rendered once, above every section, and not  *)
(* at all iff no matched record has an original text.  "First" is in       *)
(* ascending order of model display name in the original claim, and in     *)
(* Corpus order (the order of the file list) in the amended one.           *)
(***************************************************************************)
\* C9 as claimed: the header is the trimmed original text of the first
\* matched record, in ascending order of model display name, that has one.
C9_HeaderBySortedModel ==
    (Loaded /\ ui # None /\ ui[1].models # {}) =>
      IF WithOriginal = {}
      THEN PositionsOf("header") = {}
      ELSE \E r \in WithOriginal :
              /\ \A q \in WithOriginal : ~ NameLess(q.model, r.model)
              /\ HeaderShows(r)

\* C9 amended: the header is the trimmed original text of the first matched
\* record, in Corpus order, that has one; rendered once, above the
\* sections; absent iff no matched record has an original text.
C9_HeaderByCorpusOrder ==
    (Loaded /\ ui # None /\ ui[1].models # {}) =>
      IF WithOriginal = {}
      THEN PositionsOf("header") = {}
      ELSE \E r \in WithOriginal :
              /\ \A q \in WithOriginal : r.idx <= q.idx
              /\ HeaderShows(r)

\* Mixtral's record says "b", Gemini's " a ": the header is "b".
C9_Witness ==
    /\ Loaded /\ ui # None
    /\ PositionsOf("header") # {}
    /\ ItemsOf("header")[1].text = << "b" >>
    /\ \E r \in WithOriginal :
          r.model = "Gemini 1.5 Flash" /\ r.orig = << " ", "a", " " >>
    /\ \E r \in WithOriginal : r.model = "Mixtral"

(***************************************************************************)
(* C10: on every page the verse choice set is the ascending distinct       *)
(* verses of the records of the selected chapter, the selected verse is    *)
(* one of them, and some record has the selected chapter and verse.        *)
(***************************************************************************)
C10_DependentVerse ==
    (Loaded /\ ui # None) =>
      /\ Range(VerseChoices)
           = { r.verse : r \in { q \in Range(Corpus) :
                                   << q.chapter >> = ui[1].chapter } }
      /\ \A j, k \in 1..Len(VerseChoices) : j < k => VerseChoices[j] < VerseChoices[k]
      /\ ui[1].verse # None
      /\ ui[1].verse[1] \in Range(VerseChoices)
      /\ \E r \in Range(Corpus) :
            << r.chapter >> = ui[1].chapter /\ << r.verse >> = ui[1].verse

====
